---- MODULE Spec2Model ----
(***************************************************************************)
(* The call-access hook useCallAccess (src/unnamed/part_001): the creator  *)
(* effect, the access effect with its polling interval, the user action    *)
(* handleRequestAccess, and the fetches they leave in flight.              *)
(*                                                                         *)
(* One step of the model is one run-to-completion piece of JavaScript: a   *)
(* render with the effects it re-runs, a timer callback, or the            *)
(* continuation of one await.  `ev` records what the last step did and     *)
(* which session fields it changed; it is an observation of the run, not   *)
(* state of the program.                                                   *)
(*                                                                         *)
(* The teams routes (src/unnamed/part_000) are a second state machine over *)
(* the tables teams and team_members: one step is one database statement   *)
(* of a request together with the local code that leads to it, so the      *)
(* statements of concurrent requests interleave.  `tev` observes the last  *)
(* step.  Spec runs the hook, TeamsSpec the routes.                        *)
(***************************************************************************)
EXTENDS Naturals, Sequences, FiniteSets, Bags, TLC

VARIABLES
  state,      \* the call context's state: callId, joined, hasAccess, ...
  user,       \* session.user?.id
  timers,     \* active setInterval timers, each named by the callId it captured
  cleanup,    \* the timers the access effect's pending cleanup will clear
  inflight,   \* bag of fetches awaiting their response or their body
  only404,    \* every probe answered for callId, since it was set, answered 404
  arrived,    \* the 200 bodies applied by the last steps, oldest first
  ev,         \* what the last step did
  teams,      \* the rows of table teams
  teamMembers,\* the rows of table team_members, a bag
  treqs,      \* bag of requests between two of their database statements
  tev         \* what the last step of a route did

vars == <<state, user, timers, cleanup, inflight, only404, arrived, ev>>
tvars == <<teams, teamMembers, treqs, tev>>

---------------------------------------------------------------------------
(* Bounds and value sets *)

MaxInFlight == 2

NoCall == ""
CallIds == {"abc123", "xyz789"}
NoId == "absent"
UserIds == {NoId, "guest", "u7"}
null == "null"
Creators == {"u1"}
CheckBodies == [hasAccess : BOOLEAN, isCreator : BOOLEAN]
ProbeStatuses == {200, 404, 500}
JoinStatuses == {200, 409}
JoinErrors == {"Already requested", ""}
Rejected == 0          \* the fetch promise rejected: no status

Req(k, c, p) == [kind |-> k, call |-> c, phase |-> p]
One(r) == SetToBag({r})
Pending(k, c) == CopiesIn(Req(k, c, "sent"), inflight)
                   + CopiesIn(Req(k, c, "json"), inflight)

---------------------------------------------------------------------------
(* The context's reducer and the toasts *)

dispatch(s, type, payload) ==
  CASE type = "SET_CREATOR_INFO"      -> [s EXCEPT !.creatorInfo = payload]
    [] type = "SET_HAS_ACCESS"        -> [s EXCEPT !.hasAccess = payload]
    [] type = "SET_CREATOR"           -> [s EXCEPT !.isCreator = payload]
    [] type = "SET_REQUESTING_ACCESS" -> [s EXCEPT !.isRequestingAccess = payload]

Toast(level, text) == [level |-> level, text |-> text]

---------------------------------------------------------------------------
(* The branches of the hook *)

ok(status) == status >= 200 /\ status <= 299

isGuest(u) == u = NoId \/ u = "guest"

\* fetchCreatorInfo up to its await: the number of creator fetches it issues
fetchCreatorInfo(s) == IF s.callId = NoCall THEN 0 ELSE 1

\* creatorOk with a grant of access added to the 200 branch
creatorOk_AlsoGrants(s, creator) ==
  dispatch(dispatch(s, "SET_CREATOR_INFO", creator), "SET_HAS_ACCESS", TRUE)

\* fetchCreatorInfo after response.json() resolved
creatorOk(s, creator) == dispatch(s, "SET_CREATOR_INFO", creator)

\* creatorNotOk with every failure taken for a 404
creatorNotOk_AnyFailureOpens(s, status) ==
  dispatch(dispatch(dispatch(s, "SET_CREATOR_INFO", null),
                    "SET_HAS_ACCESS", TRUE), "SET_CREATOR", FALSE)

\* fetchCreatorInfo on a response that is not ok, or on a rejection
creatorNotOk(s, status) ==
  IF status = 404
    THEN dispatch(dispatch(dispatch(s, "SET_CREATOR_INFO", null),
                           "SET_HAS_ACCESS", TRUE), "SET_CREATOR", FALSE)
    ELSE s

\* accessBranch without the test of callId
accessBranch_NoCallTest(s, u) ==
  IF s.joined THEN "skip"
  ELSE IF isGuest(u) THEN "guest"
  ELSE "poll"

\* accessBranch without the guest branch
accessBranch_NoGuestBranch(s, u) ==
  IF s.joined \/ s.callId = NoCall THEN "skip" ELSE "poll"

\* accessBranch without the test of joined
accessBranch_IgnoresJoined(s, u) ==
  IF s.callId = NoCall THEN "skip"
  ELSE IF isGuest(u) THEN "guest"
  ELSE "poll"

\* which way the access effect goes
accessBranch(s, u) ==
  IF s.joined \/ s.callId = NoCall THEN "skip"
  ELSE IF isGuest(u) THEN "guest"
  ELSE "poll"

\* the guest branch of the access effect
guestAccess(s) ==
  dispatch(dispatch(s, "SET_HAS_ACCESS", TRUE), "SET_CREATOR", FALSE)

\* an effect whose cleanup clears nothing
clearInterval_Leaks(ts, cl) == ts

\* the timers left by the cleanup returned from the effect's previous run
clearInterval(ts, cl) == ts \ cl

\* checkOk with creatorInfo reset by the poll
checkOk_ClearsCreatorInfo(s, data) ==
  dispatch(dispatch(dispatch(s, "SET_HAS_ACCESS", data.hasAccess),
                    "SET_CREATOR", data.isCreator), "SET_CREATOR_INFO", null)

\* checkOk with the two payloads exchanged
checkOk_Swapped(s, data) ==
  dispatch(dispatch(s, "SET_HAS_ACCESS", data.isCreator),
           "SET_CREATOR", data.hasAccess)

\* checkAccess after response.json() resolved
checkOk(s, data) ==
  dispatch(dispatch(s, "SET_HAS_ACCESS", data.hasAccess),
           "SET_CREATOR", data.isCreator)

\* checkNotOk without the 404 branch
checkNotOk_Ignores404(s, status) == s

\* checkNotOk with access revoked on a failure other than 404
checkNotOk_FailureRevokes(s, status) ==
  IF status = 404
    THEN dispatch(dispatch(s, "SET_HAS_ACCESS", TRUE), "SET_CREATOR", FALSE)
    ELSE dispatch(s, "SET_HAS_ACCESS", FALSE)

\* checkAccess on a response that is not ok, or on a rejection
checkNotOk(s, status) ==
  IF status = 404
    THEN dispatch(dispatch(s, "SET_HAS_ACCESS", TRUE), "SET_CREATOR", FALSE)
    ELSE s

\* requestBranch without the guest test
requestBranch_NoGuestTest(s, u) ==
  IF s.callId = NoCall THEN "noop" ELSE "request"

\* which way handleRequestAccess goes
requestBranch(s, u) ==
  IF s.callId = NoCall THEN "noop"
  ELSE IF isGuest(u) THEN "guest"
  ELSE "request"

requestStart(s) == dispatch(s, "SET_REQUESTING_ACCESS", TRUE)

\* handleRequestAccess without its finally block
requestFinally_Missing(s) == s

\* the finally block of handleRequestAccess
requestFinally(s) == dispatch(s, "SET_REQUESTING_ACCESS", FALSE)

\* errorText without the server's message
errorText_AlwaysDefault(error) == "Failed to send request"

\* data.error || "Failed to send request"
errorText(error) == IF error # "" THEN error ELSE "Failed to send request"

---------------------------------------------------------------------------
(* Observation of a step *)

NoEv == [op |-> "Init", status |-> Rejected,
         creator |-> 0, check |-> 0, join |-> 0,
         branch |-> "none", toast |-> <<>>,
         data |-> [hasAccess |-> FALSE, isCreator |-> FALSE],
         info |-> null, changed |-> {},
         call |-> NoCall, error |-> "", done |-> 0]

\* the session fields a step changed
Changed(s, t) ==
  {f \in {"hasAccess", "isCreator", "isRequestingAccess", "creatorInfo"} :
     s[f] # t[f]}

Step(op) == [NoEv EXCEPT !.op = op, !.changed = Changed(state, state')]

\* the 200 bodies applied by the last step and, when that one applied a body
\* of the other kind, by the step before it
Body(kind, data, info) == [kind |-> kind, data |-> data, info |-> info]

Arrive(b) ==
  IF Len(arrived) = 1 /\ arrived[1].kind # b.kind
    THEN <<arrived[1], b>>
    ELSE <<b>>

---------------------------------------------------------------------------
(* Initial state: the hook mounted on a context that has no call yet *)

Mount(joineds, users) ==
  /\ state \in [callId : {NoCall}, joined : joineds, hasAccess : {FALSE},
                isCreator : {FALSE}, isRequestingAccess : {FALSE},
                creatorInfo : {null}]
  /\ user \in users
  /\ timers = {}
  /\ cleanup = {}
  /\ inflight = EmptyBag
  /\ only404 = TRUE
  /\ arrived = <<>>
  /\ ev = NoEv

---------------------------------------------------------------------------
(* The teams routes: values *)

MaxTeams == 2       \* teams created in a run
MaxRequests == 2    \* requests in progress at a time
MaxEmails == 2      \* length of an email list in a body

NoSession == "none"                       \* c.get("user") is empty
UserTable == {[id |-> "ua", email |-> "a@x"], [id |-> "ub", email |-> "b@x"]}
Emails == {"a@x", "b@x", "z@x"}
Callers == {"ua", NoSession}              \* who sends the requests
UserIdsT == {u.id : u \in UserTable}
TeamIds == 1..MaxTeams
EmailLists == UNION {[1..n -> Emails] : n \in 0..MaxEmails}
NoBody == [parses |-> FALSE, emails |-> <<>>]   \* bad JSON, or fails the schema
Bodies == {NoBody} \cup [parses : {TRUE}, emails : EmailLists]

Row(t, u) == [teamId |-> t, userId |-> u]
TReq(kind, caller, t, ids) ==
  [kind |-> kind, caller |-> caller, team |-> t, ids |-> ids, list |-> {}]

NoTev == [op |-> "Init", status |-> 0, caller |-> NoSession, team |-> 0,
          body |-> [parses |-> TRUE, emails |-> <<>>], ids |-> {},
          changed |-> {}, started |-> 0, rows |-> {}, list |-> <<>>]

EmptyTables ==
  /\ teams = {}
  /\ teamMembers = EmptyBag
  /\ treqs = EmptyBag
  /\ tev = NoTev

Init == Mount(BOOLEAN, UserIds) /\ EmptyTables

\* the routes alone: the hook stays as it was mounted
TeamsInit == Mount({FALSE}, {NoId}) /\ EmptyTables

---------------------------------------------------------------------------
(* A render after which the access effect re-runs (callId, user?.id or     *)
(* joined changed), preceded by the creator effect when callId changed.    *)

Render(s, u, op, withCreator) ==
  LET nCreator == IF withCreator THEN fetchCreatorInfo(s) ELSE 0
      branch   == accessBranch(s, u)
      nCheck   == IF branch = "poll" THEN 1 ELSE 0
      cleared  == clearInterval(timers, cleanup)
      sent     == (IF nCreator = 1 THEN One(Req("creator", s.callId, "sent"))
                                   ELSE EmptyBag)
                  (+) (IF nCheck = 1 THEN One(Req("check", s.callId, "sent"))
                                     ELSE EmptyBag)
  IN  /\ BagCardinality(inflight) + nCreator + nCheck <= MaxInFlight
      /\ state' = IF branch = "guest" THEN guestAccess(s) ELSE s
      /\ user' = u
      /\ timers' = IF branch = "poll" THEN cleared \cup {s.callId} ELSE cleared
      /\ cleanup' = IF branch = "poll" THEN {s.callId} ELSE {}
      /\ inflight' = inflight (+) sent
      /\ only404' = (IF withCreator THEN TRUE ELSE only404)
      /\ arrived' = <<>>
      /\ ev' = [Step(op) EXCEPT !.creator = nCreator, !.check = nCheck,
                                !.branch = branch]
      /\ UNCHANGED tvars

SetCallId ==
  \E c \in CallIds \cup {NoCall} :
    /\ c # state.callId
    /\ Render([state EXCEPT !.callId = c], user, "SetCallId", TRUE)

SetUser ==
  \E u \in UserIds :
    /\ u # user
    /\ Render(state, u, "SetUser", FALSE)

SetJoined ==
  Render([state EXCEPT !.joined = ~state.joined], user, "SetJoined", FALSE)

\* a tick of an interval: checkAccess with the callId its closure captured
Tick ==
  \E c \in timers :
    /\ BagCardinality(inflight) < MaxInFlight
    /\ inflight' = inflight (+) One(Req("check", c, "sent"))
    /\ arrived' = <<>>
    /\ UNCHANGED <<state, user, timers, cleanup, only404, tvars>>
    /\ ev' = [Step("Tick") EXCEPT !.check = 1]

---------------------------------------------------------------------------
(* The creator fetch *)

CreatorResponse ==
  \E c \in CallIds, status \in ProbeStatuses \cup {Rejected} :
    /\ BagIn(Req("creator", c, "sent"), inflight)
    /\ inflight' = IF ok(status)
                     THEN (inflight (-) One(Req("creator", c, "sent")))
                            (+) One(Req("creator", c, "json"))
                     ELSE inflight (-) One(Req("creator", c, "sent"))
    /\ state' = IF ok(status) THEN state ELSE creatorNotOk(state, status)
    /\ only404' = (only404 /\ (c = state.callId => status = 404))
    /\ arrived' = <<>>
    /\ ev' = [Step("CreatorResponse") EXCEPT !.status = status, !.call = c]
    /\ UNCHANGED <<user, timers, cleanup, tvars>>

CreatorBody ==
  \E c \in CallIds, creator \in Creators :
    /\ BagIn(Req("creator", c, "json"), inflight)
    /\ inflight' = inflight (-) One(Req("creator", c, "json"))
    /\ state' = creatorOk(state, creator)
    /\ ev' = [Step("CreatorBody") EXCEPT !.status = 200, !.call = c,
                                         !.info = creator]
    /\ only404' = (only404 /\ c # state.callId)
    /\ arrived' = Arrive(Body("creator", NoEv.data, creator))
    /\ UNCHANGED <<user, timers, cleanup, tvars>>

\* response.json() rejected: the catch block
CreatorBodyRejected ==
  \E c \in CallIds :
    /\ BagIn(Req("creator", c, "json"), inflight)
    /\ inflight' = inflight (-) One(Req("creator", c, "json"))
    /\ state' = creatorNotOk(state, Rejected)
    /\ ev' = [Step("CreatorBodyRejected") EXCEPT !.call = c]
    /\ only404' = (only404 /\ c # state.callId)
    /\ arrived' = <<>>
    /\ UNCHANGED <<user, timers, cleanup, tvars>>

---------------------------------------------------------------------------
(* The access poll *)

CheckResponse ==
  \E c \in CallIds, status \in ProbeStatuses \cup {Rejected} :
    /\ BagIn(Req("check", c, "sent"), inflight)
    /\ inflight' = IF ok(status)
                     THEN (inflight (-) One(Req("check", c, "sent")))
                            (+) One(Req("check", c, "json"))
                     ELSE inflight (-) One(Req("check", c, "sent"))
    /\ state' = IF ok(status) THEN state ELSE checkNotOk(state, status)
    /\ only404' = (only404 /\ (c = state.callId => status = 404))
    /\ arrived' = <<>>
    /\ ev' = [Step("CheckResponse") EXCEPT !.status = status, !.call = c]
    /\ UNCHANGED <<user, timers, cleanup, tvars>>

CheckBody ==
  \E c \in CallIds, data \in CheckBodies :
    /\ BagIn(Req("check", c, "json"), inflight)
    /\ inflight' = inflight (-) One(Req("check", c, "json"))
    /\ state' = checkOk(state, data)
    /\ ev' = [Step("CheckBody") EXCEPT !.status = 200, !.call = c,
                                       !.data = data]
    /\ only404' = (only404 /\ c # state.callId)
    /\ arrived' = Arrive(Body("check", data, null))
    /\ UNCHANGED <<user, timers, cleanup, tvars>>

CheckBodyRejected ==
  \E c \in CallIds :
    /\ BagIn(Req("check", c, "json"), inflight)
    /\ inflight' = inflight (-) One(Req("check", c, "json"))
    /\ state' = checkNotOk(state, Rejected)
    /\ ev' = [Step("CheckBodyRejected") EXCEPT !.call = c]
    /\ only404' = (only404 /\ c # state.callId)
    /\ arrived' = <<>>
    /\ UNCHANGED <<user, timers, cleanup, tvars>>

---------------------------------------------------------------------------
(* Request access *)

HandleRequestAccess ==
  LET branch == requestBranch(state, user)
      n      == IF branch = "request" THEN 1 ELSE 0
  IN  /\ BagCardinality(inflight) + n <= MaxInFlight
      /\ state' = IF branch = "request" THEN requestStart(state) ELSE state
      /\ inflight' = IF branch = "request"
                       THEN inflight (+) One(Req("join", NoCall, "sent"))
                       ELSE inflight
      /\ ev' = [Step("HandleRequestAccess") EXCEPT
                  !.branch = branch, !.join = n,
                  !.toast = IF branch = "guest"
                              THEN <<Toast("info",
                                       "Joining as guest. No approval required.")>>
                              ELSE <<>>]
      /\ arrived' = <<>>
      /\ UNCHANGED <<user, timers, cleanup, only404, tvars>>

JoinResponse ==
  \E status \in JoinStatuses :
    /\ BagIn(Req("join", NoCall, "sent"), inflight)
    /\ inflight' = IF ok(status)
                     THEN inflight (-) One(Req("join", NoCall, "sent"))
                     ELSE (inflight (-) One(Req("join", NoCall, "sent")))
                            (+) One(Req("join", NoCall, "json"))
    /\ state' = IF ok(status) THEN requestFinally(state) ELSE state
    /\ ev' = [Step("JoinResponse") EXCEPT
                !.status = status,
                !.done = BagCardinality(inflight) - BagCardinality(inflight'),
                !.toast = IF ok(status)
                            THEN <<Toast("success",
                              "Request sent! Please wait for the host to approve.")>>
                            ELSE <<>>]
    /\ arrived' = <<>>
    /\ UNCHANGED <<user, timers, cleanup, only404, tvars>>

\* the body of a response that is not ok
JoinBody ==
  \E error \in JoinErrors :
    /\ BagIn(Req("join", NoCall, "json"), inflight)
    /\ inflight' = inflight (-) One(Req("join", NoCall, "json"))
    /\ state' = requestFinally(state)
    /\ ev' = [Step("JoinBody") EXCEPT !.status = 409, !.error = error,
                !.done = BagCardinality(inflight) - BagCardinality(inflight'),
                !.toast = <<Toast("error", errorText(error))>>]
    /\ arrived' = <<>>
    /\ UNCHANGED <<user, timers, cleanup, only404, tvars>>

\* the fetch, or response.json(), rejected: the catch block
JoinRejected ==
  \E p \in {"sent", "json"} :
    /\ BagIn(Req("join", NoCall, p), inflight)
    /\ inflight' = inflight (-) One(Req("join", NoCall, p))
    /\ state' = requestFinally(state)
    /\ ev' = [Step("JoinRejected") EXCEPT
                !.done = BagCardinality(inflight) - BagCardinality(inflight'),
                !.toast = <<Toast("error", errorText(""))>>]
    /\ arrived' = <<>>
    /\ UNCHANGED <<user, timers, cleanup, only404, tvars>>

---------------------------------------------------------------------------

Next ==
  \/ SetCallId
  \/ SetUser
  \/ SetJoined
  \/ Tick
  \/ CreatorResponse
  \/ CreatorBody
  \/ CreatorBodyRejected
  \/ CheckResponse
  \/ CheckBody
  \/ CheckBodyRejected
  \/ HandleRequestAccess
  \/ JoinResponse
  \/ JoinBody
  \/ JoinRejected

Spec == Init /\ [][Next]_<<vars, tvars>>

TypeOK ==
  /\ state.callId \in CallIds \cup {NoCall}
  /\ state.joined \in BOOLEAN
  /\ state.hasAccess \in BOOLEAN
  /\ state.isCreator \in BOOLEAN
  /\ state.isRequestingAccess \in BOOLEAN
  /\ state.creatorInfo \in Creators \cup {null}
  /\ user \in UserIds
  /\ timers \subseteq CallIds
  /\ cleanup \subseteq CallIds
  /\ IsABag(inflight)
  /\ BagCardinality(inflight) <= MaxInFlight
  /\ only404 \in BOOLEAN
  /\ Len(arrived) <= 2

---------------------------------------------------------------------------
(* The teams routes: what the handlers compute *)

\* db.select().from(userTable).where(inArray(userTable.email, emails))
selectUsers(emails) ==
  {u \in UserTable : \E i \in DOMAIN emails : emails[i] = u.email}

\* POST /create up to the first insert: the status of the early return, or
\* 200 when the handler goes on
createValidate_SkipsLookup(caller, body) ==
  IF caller = NoSession THEN 401
  ELSE IF ~body.parses THEN 400
  ELSE 200

createValidate(caller, body) ==
  IF caller = NoSession THEN 401
  ELSE IF ~body.parses THEN 400
  ELSE IF /\ Len(body.emails) > 0
          /\ Cardinality(selectUsers(body.emails)) # Len(body.emails) THEN 400
  ELSE 200

\* POST :teamId/add-members up to the membership select; emails is min(1)
addValidate(caller, body) ==
  IF caller = NoSession THEN 401
  ELSE IF ~body.parses \/ Len(body.emails) < 1 THEN 400
  ELSE IF Cardinality(selectUsers(body.emails)) # Len(body.emails) THEN 400
  ELSE 200

\* the user ids of the rows POST /create inserts, with multiplicity
memberIds_AlwaysPushes(ids, caller) == SetToBag(ids) (+) One(caller)

memberIds(ids, caller) ==
  IF caller \in ids THEN SetToBag(ids) ELSE SetToBag(ids) (+) One(caller)

\* userIds.filter((uid) => !alreadyMemberIds.has(uid))
newMemberIds(userIds, t, rows) == {u \in userIds : ~BagIn(Row(t, u), rows)}

\* the rows of team t for a bag of user ids
Rows(t, b) == [r \in {Row(t, u) : u \in DOMAIN b} |-> b[r.userId]]

\* db.delete(teamMembers).where(and(eq(teamId), eq(userId)))
deleteRows_WholeTeam(rows, t, u) ==
  [r \in {q \in DOMAIN rows : q.teamId # t} |-> rows[r]]

deleteRows(rows, t, u) ==
  [r \in DOMAIN rows \ {Row(t, u)} |-> rows[r]]

\* db.select({teamId}).from(teamMembers).where(eq(teamMembers.userId, user.id))
userTeams_AllTeams(rows, u) == {r.teamId : r \in DOMAIN rows}

userTeams(rows, u) == {r.teamId : r \in {q \in DOMAIN rows : q.userId = u}}

\* orderBy(desc(teams.createdAt)): ids are handed out in the order of creation
RECURSIVE latestFirst(_)
latestFirst(ids) ==
  IF ids = {} THEN <<>>
  ELSE LET m == CHOOSE x \in ids : \A y \in ids : y <= x
       IN  <<m>> \o latestFirst(ids \ {m})

\* db.select().from(teams).where(inArray(teams.id, teamIds)).orderBy(...)
teamsList(teamIds) ==
  latestFirst({tm.id : tm \in {x \in teams : x.id \in teamIds}})

\* the teams a client can name: their creation has answered
Created ==
  {tm.id : tm \in teams}
    \ {r.team : r \in {q \in DOMAIN treqs : q.kind = "create"}}

TChanged ==
  (IF teams' # teams THEN {"teams"} ELSE {})
    \cup (IF teamMembers' # teamMembers THEN {"team_members"} ELSE {})

TStep(op, status, caller, t, body, ids) ==
  [op |-> op, status |-> status, caller |-> caller, team |-> t,
   body |-> body, ids |-> ids, changed |-> TChanged,
   started |-> BagCardinality(treqs') - BagCardinality(treqs),
   rows |-> {r \in DOMAIN teamMembers \cup DOMAIN teamMembers' :
               CopiesIn(r, teamMembers') # CopiesIn(r, teamMembers)},
   list |-> <<>>]

---------------------------------------------------------------------------
(* POST /api/teams/create *)

\* the bodies a handler can tell apart: it answers 401 before it reads one
BodiesOf(caller) == IF caller = NoSession THEN {NoBody} ELSE Bodies

\* an early return: nothing is read from or written to the tables
Refuse(op, status, caller, body) ==
  /\ UNCHANGED <<teams, teamMembers, treqs>>
  /\ tev' = TStep(op, status, caller, 0, body, {})
  /\ UNCHANGED vars

\* validation and the insert of the team row
CreateTeam ==
  \E caller \in Callers :
    \E body \in BodiesOf(caller) :
      LET status == createValidate(caller, body)
          teamId == Cardinality(teams) + 1
          ids    == {u.id : u \in selectUsers(body.emails)}
      IN  IF status # 200
            THEN Refuse("CreateTeam", status, caller, body)
            ELSE /\ Cardinality(teams) < MaxTeams
                 /\ BagCardinality(treqs) < MaxRequests
                 /\ teams' = teams \cup {[id |-> teamId, creatorId |-> caller]}
                 /\ treqs' = treqs (+) One(TReq("create", caller, teamId, ids))
                 /\ UNCHANGED teamMembers
                 /\ tev' = TStep("CreateTeam", 0, caller, teamId, body, ids)
                 /\ UNCHANGED vars

\* the insert of the membership rows, and the answer
CreateMembers ==
  \E r \in DOMAIN treqs :
    /\ r.kind = "create"
    /\ teamMembers' = teamMembers (+) Rows(r.team, memberIds(r.ids, r.caller))
    /\ treqs' = treqs (-) One(r)
    /\ UNCHANGED teams
    /\ tev' = TStep("CreateMembers", 200, r.caller, r.team, NoTev.body, r.ids)
    /\ UNCHANGED vars

---------------------------------------------------------------------------
(* POST /api/teams/:teamId/add-members *)

\* validation and the select of the existing members
AddCheck ==
  \E caller \in Callers :
    \E body \in BodiesOf(caller) :
      LET status  == addValidate(caller, body)
          userIds == {u.id : u \in selectUsers(body.emails)}
      IN  IF status # 200
            THEN Refuse("AddCheck", status, caller, body)
            ELSE \E t \in Created :
                   LET new == newMemberIds(userIds, t, teamMembers)
                   IN  /\ IF new = {}
                            THEN UNCHANGED treqs
                            ELSE /\ BagCardinality(treqs) < MaxRequests
                                 /\ treqs' = treqs
                                      (+) One(TReq("add", NoSession, t, new))
                       /\ UNCHANGED <<teams, teamMembers>>
                       /\ tev' = TStep("AddCheck", IF new = {} THEN 400 ELSE 0,
                                       caller, t, body, new)
                       /\ UNCHANGED vars

\* the insert of the new rows, and the answer
AddInsert ==
  \E r \in DOMAIN treqs :
    /\ r.kind = "add"
    /\ teamMembers' = teamMembers (+) Rows(r.team, SetToBag(r.ids))
    /\ treqs' = treqs (-) One(r)
    /\ UNCHANGED teams
    /\ tev' = TStep("AddInsert", 200, r.caller, r.team, NoTev.body, r.ids)
    /\ UNCHANGED vars

---------------------------------------------------------------------------
(* POST /api/teams/:teamId/leave *)

\* the select of the caller's membership
LeaveCheck ==
  \E caller \in Callers :
    IF caller = NoSession
      THEN Refuse("LeaveCheck", 401, caller, NoBody)
      ELSE \E t \in Created :
             LET member == BagIn(Row(t, caller), teamMembers)
             IN  /\ IF member
                      THEN /\ BagCardinality(treqs) < MaxRequests
                           /\ treqs' = treqs (+) One(TReq("leave", caller, t, {}))
                      ELSE UNCHANGED treqs
                 /\ UNCHANGED <<teams, teamMembers>>
                 /\ tev' = TStep("LeaveCheck", IF member THEN 0 ELSE 404,
                                 caller, t, NoBody, {})
                 /\ UNCHANGED vars

\* the delete, and the answer
LeaveDelete ==
  \E r \in DOMAIN treqs :
    /\ r.kind = "leave"
    /\ teamMembers' = deleteRows(teamMembers, r.team, r.caller)
    /\ treqs' = treqs (-) One(r)
    /\ UNCHANGED teams
    /\ tev' = TStep("LeaveDelete", 200, r.caller, r.team, NoTev.body, {})
    /\ UNCHANGED vars

---------------------------------------------------------------------------
(* GET /api/teams *)

\* the select of the caller's memberships
ListSelect ==
  \E caller \in Callers :
    IF caller = NoSession
      THEN Refuse("ListSelect", 401, caller, NoBody)
      ELSE LET teamIds == userTeams(teamMembers, caller)
           IN  /\ IF teamIds = {}
                    THEN UNCHANGED treqs
                    ELSE /\ BagCardinality(treqs) < MaxRequests
                         /\ treqs' = treqs
                              (+) One([TReq("list", caller, 0, {})
                                         EXCEPT !.list = teamIds])
               /\ UNCHANGED <<teams, teamMembers>>
               /\ tev' = TStep("ListSelect", IF teamIds = {} THEN 200 ELSE 0,
                               caller, 0, NoBody, {})
               /\ UNCHANGED vars

\* the selects of the teams and of their members, and the answer
ListAnswer ==
  \E r \in DOMAIN treqs :
    /\ r.kind = "list"
    /\ treqs' = treqs (-) One(r)
    /\ UNCHANGED <<teams, teamMembers>>
    /\ tev' = [TStep("ListAnswer", 200, r.caller, 0, NoTev.body, {})
                 EXCEPT !.list = teamsList(r.list)]
    /\ UNCHANGED vars

TeamsNext ==
  \/ CreateTeam
  \/ CreateMembers
  \/ AddCheck
  \/ AddInsert
  \/ LeaveCheck
  \/ LeaveDelete
  \/ ListSelect
  \/ ListAnswer

TeamsSpec == TeamsInit /\ [][TeamsNext]_<<vars, tvars>>

TeamsTypeOK ==
  /\ teams \subseteq [id : TeamIds, creatorId : UserIdsT]
  /\ IsABag(teamMembers)
  /\ DOMAIN teamMembers \subseteq
       [teamId : TeamIds, userId : UserIdsT]
  /\ IsABag(treqs)
  /\ BagCardinality(treqs) <= MaxRequests
  /\ tev.status \in {0, 200, 400, 401, 404}
  /\ tev.changed \subseteq {"teams", "team_members"}

---------------------------------------------------------------------------
(* The session as the call UI reads it *)

Polling == state.callId # NoCall /\ ~state.joined /\ user \notin {NoId, "guest"}
Guest == user \in {NoId, "guest"}
OpenRoom == state.hasAccess /\ ~state.isCreator /\ state.creatorInfo = null
Rerendered == ev.op \in {"SetCallId", "SetUser", "SetJoined"}

---------------------------------------------------------------------------
\* C1: when the creator probe and every check-access probe answered for the
\* current callId answered 404 and none is outstanding, the session is the
\* open room: hasAccess = true, isCreator = false, creatorInfo = null.
C1_All404IsOpenRoom ==
  ( /\ state.callId # NoCall
    /\ only404
    /\ Pending("creator", state.callId) = 0
    /\ Pending("check", state.callId) = 0 )
  => OpenRoom

\* C2: while the user is a guest no check-access request is issued and no
\* timer runs; the access effect of a guest with a callId who has not joined
\* sets hasAccess = true and isCreator = false in the step in which it runs.
C2_GuestNeverChecksAccess ==
  /\ Guest => ev.check = 0 /\ timers = {}
  /\ (Guest /\ Rerendered /\ state.callId # NoCall /\ ~state.joined)
       => state.hasAccess /\ ~state.isCreator

C2_Witness ==
  /\ ev.op = "SetCallId" /\ user = "guest" /\ state.callId = "xyz789"
  /\ ~state.joined /\ state.hasAccess /\ "hasAccess" \in ev.changed

\* C3: while joined is true there is no polling timer and no step issues a
\* check-access request.
C3_JoinedStopsPolling ==
  state.joined => timers = {} /\ ev.check = 0

C3_Witness ==
  /\ ev.op = "SetJoined" /\ state.joined /\ state.callId # NoCall
  /\ ~Guest /\ Pending("check", state.callId) > 0

\* C4: each completion of a request-join (a 2xx response, the body of a
\* non-2xx response, a rejection) leaves isRequestingAccess false, and
\* isRequestingAccess is true only while a request-join is in flight.
C4_RequestingAccessReset ==
  /\ ( \/ ev.op = "JoinResponse" /\ ok(ev.status)
       \/ ev.op = "JoinBody"
       \/ ev.op = "JoinRejected" ) => ~state.isRequestingAccess
  /\ state.isRequestingAccess
       => BagIn(Req("join", NoCall, "sent"), inflight)
            \/ BagIn(Req("join", NoCall, "json"), inflight)

C4_Witness ==
  ev.op = "JoinRejected" /\ "isRequestingAccess" \in ev.changed

\* C5: a guest with a callId who has not joined has hasAccess = true and
\* isCreator = false in every state, also while responses of requests issued
\* for an earlier identity are still arriving.
C5_GuestAlwaysHasAccess ==
  (Guest /\ state.callId # NoCall /\ ~state.joined)
    => state.hasAccess /\ ~state.isCreator

\* C6: a 404 from the creator endpoint or from check-access sets
\* hasAccess = true and isCreator = false and leaves the timer of a polling
\* session running; every tick issues one check-access request.
C6_NotFoundOpensAndKeepsPolling ==
  /\ (ev.op \in {"CreatorResponse", "CheckResponse"} /\ ev.status = 404)
       => /\ state.hasAccess /\ ~state.isCreator
          /\ Polling => timers = {state.callId}
  /\ ev.op = "Tick" => ev.check = 1

C6_Witness ==
  /\ ev.op = "CheckResponse" /\ ev.status = 404 /\ Polling
  /\ "hasAccess" \in ev.changed /\ timers = {state.callId}

\* C7: handleRequestAccess with an empty callId does nothing; with a callId,
\* by a guest, it issues no request-join, shows one informational toast and
\* changes no session field.
C7_GuestRequestIsNoOp ==
  ev.op = "HandleRequestAccess" =>
    /\ state.callId = NoCall
         => ev.join = 0 /\ ev.toast = <<>> /\ ev.changed = {}
    /\ (state.callId # NoCall /\ Guest)
         => /\ ev.join = 0 /\ ev.changed = {}
            /\ Len(ev.toast) = 1 /\ ev.toast[1].level = "info"

C7_Witness ==
  /\ ev.op = "HandleRequestAccess" /\ user = "guest"
  /\ state.callId # NoCall /\ Len(ev.toast) = 1

\* C8: a creator fetch is issued by exactly the steps that set callId to a
\* non-empty value, one per step; its 200 body sets creatorInfo and nothing
\* else; a rejection or a status that is neither 2xx nor 404 changes nothing.
C8_CreatorFetchOnce ==
  /\ ev.creator = (IF ev.op = "SetCallId" /\ state.callId # NoCall
                     THEN 1 ELSE 0)
  /\ ev.op = "CreatorBody"
       => state.creatorInfo = ev.info /\ ev.changed \subseteq {"creatorInfo"}
  /\ ( \/ ev.op = "CreatorResponse" /\ ev.status # 404
       \/ ev.op = "CreatorBodyRejected" ) => ev.changed = {}

C8_Witness ==
  /\ ev.op = "CreatorResponse" /\ ev.status = 500
  /\ ~state.hasAccess /\ state.callId # NoCall
  /\ Pending("creator", state.callId) = 0

\* C9: a check-access that fails (rejection, or a status that is neither 2xx
\* nor 404) changes no session field and leaves the timer of a polling
\* session running; every tick issues one check-access request.
C9_CheckFailureRetained ==
  /\ ( \/ ev.op = "CheckResponse" /\ ev.status \in {500, Rejected}
       \/ ev.op = "CheckBodyRejected" )
       => /\ ev.changed = {}
          /\ Polling => timers = {state.callId}
  /\ (ev.op = "Tick" /\ Polling) => ev.check = 1 /\ timers = {state.callId}

C9_Witness ==
  /\ ev.op = "CheckResponse" /\ ev.status = 500 /\ Polling
  /\ state.hasAccess /\ timers = {state.callId}

\* C10: for an identified user, after a check-access 200 body {h, c} and a
\* creator 200 body X have been applied, in either order, hasAccess = h,
\* isCreator = c and creatorInfo = X.
C10_BothBodiesSettle ==
  (Len(arrived) = 2 /\ ~Guest) =>
    LET chk == IF arrived[1].kind = "check" THEN arrived[1] ELSE arrived[2]
        cre == IF arrived[1].kind = "creator" THEN arrived[1] ELSE arrived[2]
    IN  /\ state.hasAccess = chk.data.hasAccess
        /\ state.isCreator = chk.data.isCreator
        /\ state.creatorInfo = cre.info

C10_Witness ==
  /\ Len(arrived) = 2 /\ arrived[1].kind = "creator" /\ user = "u7"
  /\ state.callId = "abc123" /\ ~state.hasAccess /\ ~state.isCreator
  /\ state.creatorInfo = "u1"

C10_WitnessCheckFirst ==
  /\ Len(arrived) = 2 /\ arrived[1].kind = "check" /\ user = "u7"
  /\ ~state.hasAccess /\ ~state.isCreator /\ state.creatorInfo = "u1"

---------------------------------------------------------------------------
(* The kinds of step *)

CreatorSteps == {"CreatorResponse", "CreatorBody", "CreatorBodyRejected"}
CheckSteps == {"CheckResponse", "CheckBody", "CheckBodyRejected"}
JoinSteps == {"JoinResponse", "JoinBody", "JoinRejected"}
Access == {"hasAccess", "isCreator"}
DefaultError == "Failed to send request"

\* C11: a request-join shows no toast when it is issued and exactly one in
\* the step in which it completes: success on a 2xx response, an error with
\* the server's error string when the body has one, an error with the
\* default text when it has none or the call rejected; an error leaves
\* isRequestingAccess false.
C11_OneToastPerRequest ==
  /\ (ev.op = "HandleRequestAccess" /\ ev.join = 1) => ev.toast = <<>>
  /\ ev.op \in JoinSteps => Len(ev.toast) = ev.done
  /\ (ev.op = "JoinResponse" /\ ok(ev.status))
       => ev.done = 1 /\ ev.toast[1].level = "success"
  /\ ev.op = "JoinBody"
       => /\ ev.done = 1 /\ ~state.isRequestingAccess
          /\ ev.toast = <<Toast("error", IF ev.error # "" THEN ev.error
                                                          ELSE DefaultError)>>
  /\ ev.op = "JoinRejected"
       => /\ ev.done = 1 /\ ~state.isRequestingAccess
          /\ ev.toast = <<Toast("error", DefaultError)>>

C11_Witness ==
  /\ ev.op = "JoinBody" /\ ev.status = 409
  /\ ev.toast = <<Toast("error", "Already requested")>>
  /\ "isRequestingAccess" \in ev.changed

\* C12: a render that leaves an identified user polling issues one
\* check-access in that step and leaves one timer, for the current callId;
\* every tick issues one more; nothing else issues check-access, and none is
\* issued and no timer runs while callId is empty or joined is true.
C12_PollImmediatelyThenPerTick ==
  /\ (Rerendered /\ Polling) => ev.check = 1
  /\ Polling => timers = {state.callId}
  /\ ev.op = "Tick" => ev.check = 1 /\ Polling
  /\ ev.check = 1 => Polling /\ (Rerendered \/ ev.op = "Tick")
  /\ ev.check \in {0, 1}
  /\ ~Polling => timers = {}

C12_Witness ==
  /\ ev.op = "SetCallId" /\ Polling /\ ev.check = 1
  /\ Pending("check", state.callId) = 1 /\ timers = {state.callId}

C12_WitnessTick ==
  ev.op = "Tick" /\ Pending("check", state.callId) = 2

\* C13: the response of a check-access or creator request issued before the
\* effect was torn down (for another callId, or a check-access arriving
\* while joined or for a guest) changes none of hasAccess, isCreator and
\* creatorInfo.
C13_LateResponseDiscarded ==
  ( \/ ev.op \in CreatorSteps \cup CheckSteps /\ ev.call # state.callId
    \/ ev.op \in CheckSteps /\ (state.joined \/ Guest) )
  => ev.changed \cap {"hasAccess", "isCreator", "creatorInfo"} = {}

\* C14 as stated: the creator fetch, the access poll and request-join change
\* pairwise disjoint sets of session fields.
C14_DisjointWrites ==
  /\ ev.op \in CreatorSteps => ev.changed \subseteq {"creatorInfo"}
  /\ ev.op \in CheckSteps => ev.changed \subseteq Access
  /\ ev.op \in JoinSteps \cup {"HandleRequestAccess"}
       => ev.changed \subseteq {"isRequestingAccess"}

\* C14 as amended: request-join changes isRequestingAccess only, the access
\* poll hasAccess and isCreator only, the creator fetch creatorInfo only,
\* except on a 404, where it changes hasAccess and isCreator too.
C14_WriteSets ==
  /\ ev.op \in CreatorSteps
       => ev.changed \subseteq (IF ev.op = "CreatorResponse" /\ ev.status = 404
                                  THEN {"creatorInfo"} \cup Access
                                  ELSE {"creatorInfo"})
  /\ ev.op \in CheckSteps => ev.changed \subseteq Access
  /\ ev.op \in JoinSteps \cup {"HandleRequestAccess"}
       => ev.changed \subseteq {"isRequestingAccess"}

C14_Witness ==
  /\ ev.op = "CreatorResponse" /\ ev.status = 404
  /\ Access \subseteq ev.changed /\ Pending("check", state.callId) > 0

\* C15: isRequestingAccess is true whenever a request-join is in flight, and
\* a check-access body is applied while one is.
C15_RequestingWhileInFlight ==
  Pending("join", NoCall) > 0
    => /\ state.isRequestingAccess
       /\ ev.op = "CheckBody" => /\ state.hasAccess = ev.data.hasAccess
                                 /\ state.isCreator = ev.data.isCreator

\* C16: hasAccess and isCreator are those of the response applied last: a
\* check-access body sets both from the body, a 404 sets true and false, in
\* one step, also when the response is for an earlier callId; no other
\* response changes them.
C16_LastWriteWins ==
  /\ ev.op = "CheckBody" => /\ state.hasAccess = ev.data.hasAccess
                            /\ state.isCreator = ev.data.isCreator
  /\ (ev.op \in {"CheckResponse", "CreatorResponse"} /\ ev.status = 404)
       => state.hasAccess /\ ~state.isCreator
  /\ (ev.op \in CreatorSteps \cup CheckSteps /\ ev.op # "CheckBody"
        /\ ev.status # 404) => ev.changed \cap Access = {}
  /\ ev.op \in JoinSteps => ev.changed \cap Access = {}

C16_Witness ==
  /\ ev.op = "CheckBody" /\ ev.call = "abc123" /\ state.callId = "xyz789"
  /\ ~state.hasAccess /\ "hasAccess" \in ev.changed

\* C17: at most one timer is active, it is the one of the current callId
\* and the one the pending cleanup clears, and none is active while the user
\* is a guest, callId is empty or joined is true.
C17_OneTimer ==
  /\ Cardinality(timers) <= 1
  /\ timers \subseteq {state.callId}
  /\ clearInterval(timers, cleanup) = {}
  /\ (Guest \/ state.callId = NoCall \/ state.joined) => timers = {}

C17_Witness ==
  /\ ev.op = "SetUser" /\ Polling /\ timers = {state.callId}
  /\ Pending("check", state.callId) = 2

---------------------------------------------------------------------------
(* Claims about the teams routes, under TeamsSpec *)

Registered(emails) ==
  {e \in {u.email : u \in UserTable} : \E i \in DOMAIN emails : emails[i] = e}
Refused == tev.status \in {400, 401}

\* C18: after any run of create, add-members and leave requests, two
\* add-members requests whose database statements interleave included,
\* team_members holds no (teamId, userId) pair more than once, and an
\* add-members request that finds every listed user already a member answers
\* 400 and inserts nothing.
C18_NoPairTwice ==
  /\ \A r \in DOMAIN teamMembers : teamMembers[r] <= 1
  /\ (tev.op = "AddCheck" /\ tev.status = 400) => tev.changed = {}

\* C19: when a create answers 200 there is one team row of the new id, its
\* creatorId is the caller, and the new team has exactly one membership row
\* for the caller and one for each listed registered user, none for anybody
\* else; the users a create goes on with are the registered ones it listed.
C19_CreateInsertsCallerOnce ==
  /\ (tev.op = "CreateTeam" /\ ~Refused) =>
       /\ tev.changed = {"teams"}
       /\ {u.email : u \in {v \in UserTable : v.id \in tev.ids}}
            = Registered(tev.body.emails)
  /\ tev.op = "CreateMembers" =>
       /\ tev.status = 200
       /\ {tm \in teams : tm.id = tev.team}
            = {[id |-> tev.team, creatorId |-> tev.caller]}
       /\ \A u \in UserIdsT :
            CopiesIn(Row(tev.team, u), teamMembers)
              = IF u = tev.caller \/ u \in tev.ids THEN 1 ELSE 0

\* the caller listed their own email along with another user's
C19_Witness ==
  /\ tev.op = "CreateMembers"
  /\ tev.caller \in tev.ids
  /\ Cardinality(tev.ids) = 2

\* the caller did not list their own email
C19_WitnessNotListed ==
  /\ tev.op = "CreateMembers"
  /\ tev.caller \notin tev.ids
  /\ tev.ids # {}

\* C20: a create or add-members request from an unauthenticated caller is
\* answered 401, one with an invalid body or with a list in which the number
\* of registered users differs from the number of emails is answered 400, and
\* a request answered 401 or 400 changes neither table and leaves no
\* statement of its own to run later.
C20_ValidationAllOrNothing ==
  tev.op \in {"CreateTeam", "AddCheck"} =>
    LET listed   == Len(tev.body.emails)
        found    == Cardinality(Registered(tev.body.emails))
        invalid  == ~tev.body.parses \/ (tev.op = "AddCheck" /\ listed = 0)
        mismatch == listed > 0 /\ found # listed
    IN  /\ tev.caller = NoSession => tev.status = 401
        /\ (tev.caller # NoSession /\ (invalid \/ mismatch)) => tev.status = 400
        /\ Refused => (tev.changed = {} /\ tev.started = 0)

\* a duplicated email is refused while the tables hold rows
C20_Witness ==
  /\ tev.op = "AddCheck"
  /\ tev.status = 400
  /\ Len(tev.body.emails) = 2
  /\ Cardinality(Registered(tev.body.emails)) = 1
  /\ teamMembers # EmptyBag

C20_WitnessCreate ==
  /\ tev.op = "CreateTeam"
  /\ tev.status = 400
  /\ tev.body.parses
  /\ Registered(tev.body.emails) = {}
  /\ teams # {}

C20_WitnessUnauthorized ==
  /\ tev.op = "CreateTeam"
  /\ tev.status = 401
  /\ teams # {}

\* C21: a leave that answers 200 has deleted rows of the caller in the named
\* team only, every other row of team_members and the teams table being as
\* before, and leaves the caller without a row in that team, so that a list
\* asked for now does not name the team; a leave by a caller without a row in
\* the team answers 404, changes neither table and deletes nothing later.
C21_LeaveRemovesOnlyCaller ==
  /\ tev.op = "LeaveDelete" =>
       /\ tev.status = 200
       /\ tev.rows \subseteq {Row(tev.team, tev.caller)}
       /\ "teams" \notin tev.changed
       /\ ~BagIn(Row(tev.team, tev.caller), teamMembers)
       /\ LET list == teamsList(userTeams(teamMembers, tev.caller))
          IN  \A i \in DOMAIN list : list[i] # tev.team
  /\ (tev.op = "LeaveCheck" /\ tev.caller # NoSession) =>
       /\ (tev.status = 404) <=> ~BagIn(Row(tev.team, tev.caller), teamMembers)
       /\ tev.changed = {}
       /\ tev.status = 404 => tev.started = 0

\* the caller left a team that has another member, and is in another team
C21_Witness ==
  /\ tev.op = "LeaveDelete"
  /\ tev.rows # {}
  /\ \E u \in UserIdsT \ {tev.caller} : BagIn(Row(tev.team, u), teamMembers)
  /\ userTeams(teamMembers, tev.caller) # {}

\* a caller who is in one team only is told 404 for the other
C21_WitnessNotMember ==
  /\ tev.op = "LeaveCheck"
  /\ tev.status = 404
  /\ userTeams(teamMembers, tev.caller) # {}

\* a list answered with one of two teams, the caller having no row in the other
C21_WitnessList ==
  /\ tev.op = "ListAnswer"
  /\ Len(tev.list) = 1
  /\ Cardinality(teams) = 2
  /\ userTeams(teamMembers, tev.caller) = {tev.list[1]}

====
